---- MODULE Spec2Model ----
(***************************************************************************)
(* Flight pathfinder (src/testing.py): the per-date flight graph, the      *)
(* multi-result priority-first search find_connected, the single-result    *)
(* search best_a_star (connected and direct mode) and find_direct.         *)
(*                                                                         *)
(* Timestamps are minute counts relative to midnight of day 0 (the code    *)
(* holds datetime values parsed from ISO strings); a cost is the code's    *)
(* total_seconds() divided by 60.  A path is a sequence of catalog         *)
(* positions: the code's path holds references to the catalog's records.   *)
(***************************************************************************)
EXTENDS Integers, Sequences, FiniteSets, TLC

VARIABLES
  catalog,    \* all_flights: the sequence of segment records
  query,      \* the arguments of the calls: start, end, date and constraints
  pc,         \* position of the caller
  g,          \* the graph built by the running search
  pq,         \* the frontier (heap) of the running search
  counter,    \* next value of itertools.count()
  visited,    \* set of visited keys of the running search
  results,    \* find_connected: results collected so far, in pop order
  ret,        \* find_connected: returned list (set at return)
  aret,       \* best_a_star connected: <<>> for None, <<path>> for a path
  directs,    \* find_direct: returned list
  dret,       \* best_a_star direct: <<>> for None, <<segment position>>
  pushed,     \* history: every entry pushed by the running search
  processed   \* history: entries popped and not discarded, in pop order

vars == <<catalog, query, pc, g, pq, counter, visited, results, ret, aret,
          directs, dret, pushed, processed>>

-----------------------------------------------------------------------------
(* Bounds and program constants *)

MaxSegs == 4            \* catalog length

DayMinutes == 1440      \* datetime.date(): one calendar day

DefaultMaxLegs == 3
DefaultMinConn == 30
DefaultMaxConn == 480
DefaultMaxResults == 6

AStarMaxLegs == 3
AStarMinConn == 30
AStarMaxConn == 480

Airports == {"A", "B", "C"}

Flight(a, b, d, r) == [from |-> a, to |-> b, dep |-> d, arr |-> r]

(* The timetable the catalogs are drawn from: a catalog is a sequence of   *)
(* MaxSegs different flights of it.  It holds two flights on one route     *)
(* (A to B), round trips through B and through C of equal elapsed time     *)
(* with first legs of different durations, a three-leg round trip, gaps of *)
(* exactly 30 and exactly 480 minutes, gaps outside the window on both     *)
(* sides, and a flight that leaves on the previous day.                    *)
Timetable ==
  { Flight("A", "B", 0, 60),
    Flight("B", "A", 120, 180),
    Flight("A", "C", 0, 50),
    Flight("C", "A", 120, 180),
    Flight("B", "C", 90, 150),
    Flight("C", "A", 530, 590),
    Flight("A", "B", 660, 720),
    Flight("A", "B", -30, 60) }

Injective(s) == \A i, j \in DOMAIN s : i # j => s[i] # s[j]

Catalogs == { c \in [1..MaxSegs -> Timetable] : Injective(c) }

Constraints(ml, mn, mx, k) ==
  [max_legs |-> ml, min_conn |-> mn, max_conn |-> mx, max_results |-> k]

DefaultConstraints ==
  Constraints(DefaultMaxLegs, DefaultMinConn, DefaultMaxConn, DefaultMaxResults)

ConstraintSets ==
  { DefaultConstraints,
    Constraints(2, DefaultMinConn, DefaultMaxConn, DefaultMaxResults),
    Constraints(1, DefaultMinConn, DefaultMaxConn, DefaultMaxResults),
    Constraints(DefaultMaxLegs, DefaultMinConn, DefaultMaxConn, 1),
    Constraints(DefaultMaxLegs, 60, 420, DefaultMaxResults),
    Constraints(DefaultMaxLegs, -600, DefaultMaxConn, DefaultMaxResults) }

Query(s, e, d, c) == [start |-> s, end |-> e, date |-> d, c |-> c]

Queries ==
  { Query("A", e, 0, c) : e \in {"A", "C"}, c \in ConstraintSets }
  \cup { Query("A", "A", -1, DefaultConstraints) }

-----------------------------------------------------------------------------
(* Helpers *)

get_dep_time(f) == f.dep

get_arr_time(f) == f.arr

DateOf(t) == t \div DayMinutes

heuristic(a, b) == 0

None == <<>>

Some(x) == <<x>>

Positions(cat) == [i \in 1..Len(cat) |-> i]

(* flts = [f for f in all_flights if get_dep_time(f).date() == date] *)
FilterDate(cat, date) ==
  SelectSeq(Positions(cat), LAMBDA i : DateOf(get_dep_time(cat[i])) = date)

Truthy(a) == a # ""

(* g[a]: the positions of the segments leaving a, in catalog order *)
build_graph(cat, flts) ==
  [a \in Airports |->
     SelectSeq(flts, LAMBDA i : /\ Truthy(cat[i].from) /\ Truthy(cat[i].to)
                                /\ cat[i].from = a)]

Entry(c, n, a, p) == [cost |-> c, seq |-> n, curr |-> a, path |-> p]

(* mutant of EntryLess: the counter alone orders the heap (first in, first out) *)
EntryLess_fifo(x, y) == x.seq < y.seq

(* heapq orders the tuples (cost, counter, ...); the counter is unique *)
EntryLess(x, y) == x.cost < y.cost \/ (x.cost = y.cost /\ x.seq < y.seq)

HeapTop(q) == CHOOSE x \in q : \A y \in q : y = x \/ EntryLess(x, y)

(* tuple(s["from"] for s in path) *)
Froms(path) == [i \in 1..Len(path) |-> catalog[path[i]].from]

StateKey(e) == <<e.curr, Froms(e.path)>>

(* mutant of SegInPath: the reuse check is missing *)
SegInPath_never(j, path) == FALSE

(* seg in path: list membership compares the records by value *)
SegInPath(j, path) == \E i \in 1..Len(path) : catalog[path[i]] = catalog[j]

LayoverMin(j, path) ==
  get_dep_time(catalog[j]) - get_arr_time(catalog[path[Len(path)]])

(* elapsed time from the first departure of path to the arrival of j *)
Elapsed(j, path) ==
  get_arr_time(catalog[j]) - get_dep_time(catalog[path[1]])

-----------------------------------------------------------------------------
(* sorted(..., key=...): Python's sort is stable.  The argument is a        *)
(* sequence of pairs <<key, value>>.                                        *)

InsertAfterLE(x, s) ==
  LET n == Cardinality({i \in 1..Len(s) : s[i][1] <= x[1]})
  IN  SubSeq(s, 1, n) \o <<x>> \o SubSeq(s, n + 1, Len(s))

RECURSIVE SortedByKey(_)
SortedByKey(s) ==
  IF s = <<>> THEN <<>>
  ELSE InsertAfterLE(s[Len(s)], SortedByKey(SubSeq(s, 1, Len(s) - 1)))

-----------------------------------------------------------------------------
(* find_connected *)

(* lines 106-109: one entry per segment leaving start, cost = arr - dep *)
RECURSIVE fc_initial(_, _, _)
fc_initial(edges, q, cnt) ==
  IF edges = <<>> THEN q
  ELSE LET j == Head(edges)
           cost == get_arr_time(catalog[j]) - get_dep_time(catalog[j])
       IN  fc_initial(Tail(edges),
                      q \cup {Entry(cost, cnt, catalog[j].to, <<j>>)}, cnt + 1)

(* line 111: while pq and len(results) < max_results *)
fc_loop == pq # {} /\ Len(results) < query.c.max_results

(* mutant of fc_stale: the visited check is missing *)
fc_stale_never(e) == FALSE

(* line 114 *)
fc_stale(e) == StateKey(e) \in visited

(* mutant of fc_goal: a single-leg arrival counts as a result *)
fc_goal_any_length(e) == e.curr = query.end

(* line 117 *)
fc_goal(e) == e.curr = query.end /\ Len(e.path) > 1

(* mutant of fc_leg_cap: the leg cap is missing *)
fc_leg_cap_never(e) == FALSE

(* line 120 *)
fc_leg_cap(e) == Len(e.path) >= query.c.max_legs

(* mutant of fc_window_reject: the upper edge of the window is not checked *)
fc_window_reject_no_max(lay) == lay < query.c.min_conn

(* line 128 *)
fc_window_reject(lay) == lay < query.c.min_conn \/ lay > query.c.max_conn

(* mutant of fc_new_total: the cost is the duration of the new leg alone *)
fc_new_total_leg_only(j, path) ==
  (get_arr_time(catalog[j]) - get_dep_time(catalog[j]))
  + heuristic(catalog[j].to, query.end)

(* line 130 *)
fc_new_total(j, path) ==
  Elapsed(j, path) + heuristic(catalog[j].to, query.end)

(* lines 123-131: the for loop over g.get(curr, []); the result is the     *)
(* frontier after the pushes (each push takes the next counter value)      *)
RECURSIVE fc_push(_, _, _)
fc_push(edges, e, q) ==
  IF edges = <<>> THEN q
  ELSE LET j == Head(edges)
       IN  IF SegInPath(j, e.path) \/ fc_window_reject(LayoverMin(j, e.path))
           THEN fc_push(Tail(edges), e, q)
           ELSE fc_push(Tail(edges), e,
                        q \cup {Entry(fc_new_total(j, e.path),
                                      counter + Cardinality(q \ pq),
                                      catalog[j].to, Append(e.path, j))})

(* line 132 *)
fc_sorted(res) == SortedByKey(res)

FindConnectedStart ==
  /\ pc = "start"
  /\ LET gr == build_graph(catalog, FilterDate(catalog, query.date))
         q0 == fc_initial(gr[query.start], {}, 0)
     IN  /\ g' = gr
         /\ pq' = q0
         /\ counter' = Cardinality(q0)
         /\ pushed' = q0
  /\ visited' = {}
  /\ results' = <<>>
  /\ processed' = <<>>
  /\ pc' = "fc"
  /\ UNCHANGED <<catalog, query, ret, aret, directs, dret>>

FindConnectedDiscard ==
  /\ pc = "fc" /\ fc_loop
  /\ LET e == HeapTop(pq)
     IN  /\ fc_stale(e)
         /\ pq' = pq \ {e}
  /\ UNCHANGED <<catalog, query, pc, g, counter, visited, results, ret, aret,
                 directs, dret, pushed, processed>>

FindConnectedRecord ==
  /\ pc = "fc" /\ fc_loop
  /\ LET e == HeapTop(pq)
     IN  /\ ~fc_stale(e)
         /\ fc_goal(e)
         /\ pq' = pq \ {e}
         /\ visited' = visited \cup {StateKey(e)}
         /\ results' = Append(results, <<e.cost, e.path>>)
         /\ processed' = Append(processed, e)
  /\ UNCHANGED <<catalog, query, pc, g, counter, ret, aret, directs, dret,
                 pushed>>

FindConnectedLegCap ==
  /\ pc = "fc" /\ fc_loop
  /\ LET e == HeapTop(pq)
     IN  /\ ~fc_stale(e)
         /\ ~fc_goal(e)
         /\ fc_leg_cap(e)
         /\ pq' = pq \ {e}
         /\ visited' = visited \cup {StateKey(e)}
         /\ processed' = Append(processed, e)
  /\ UNCHANGED <<catalog, query, pc, g, counter, results, ret, aret, directs,
                 dret, pushed>>

FindConnectedExpand ==
  /\ pc = "fc" /\ fc_loop
  /\ LET e == HeapTop(pq)
         q1 == fc_push(g[e.curr], e, pq)
     IN  /\ ~fc_stale(e)
         /\ ~fc_goal(e)
         /\ ~fc_leg_cap(e)
         /\ pq' = q1 \ {e}
         /\ counter' = counter + Cardinality(q1 \ pq)
         /\ pushed' = pushed \cup (q1 \ pq)
         /\ visited' = visited \cup {StateKey(e)}
         /\ processed' = Append(processed, e)
  /\ UNCHANGED <<catalog, query, pc, g, results, ret, aret, directs, dret>>

FindConnectedReturn ==
  /\ pc = "fc" /\ ~fc_loop
  /\ ret' = fc_sorted(results)
  /\ pc' = "fc_done"
  /\ UNCHANGED <<catalog, query, g, pq, counter, visited, results, aret,
                 directs, dret, pushed, processed>>

-----------------------------------------------------------------------------
(* best_a_star, connected mode *)

(* lines 143-146 *)
RECURSIVE as_initial(_, _, _)
as_initial(edges, q, cnt) ==
  IF edges = <<>> THEN q
  ELSE LET j == Head(edges)
           cost == (get_arr_time(catalog[j]) - get_dep_time(catalog[j]))
                   + heuristic(catalog[j].to, query.end)
       IN  as_initial(Tail(edges),
                      q \cup {Entry(cost, cnt, catalog[j].to, <<j>>)}, cnt + 1)

(* line 151 *)
as_stale(e) == StateKey(e) \in visited

(* line 154 *)
as_goal(e) == e.curr = query.end /\ Len(e.path) > 1

(* mutant of as_leg_cap: the cap is one leg too low *)
as_leg_cap_two(e) == Len(e.path) >= AStarMaxLegs - 1

(* line 156 *)
as_leg_cap(e) == Len(e.path) >= AStarMaxLegs

(* line 164 *)
as_window_reject(lay) == lay < AStarMinConn \/ lay > AStarMaxConn

(* line 166 *)
as_new_total(j, path) ==
  Elapsed(j, path) + heuristic(catalog[j].to, query.end)

(* lines 159-167 *)
RECURSIVE as_push(_, _, _)
as_push(edges, e, q) ==
  IF edges = <<>> THEN q
  ELSE LET j == Head(edges)
       IN  IF SegInPath(j, e.path) \/ as_window_reject(LayoverMin(j, e.path))
           THEN as_push(Tail(edges), e, q)
           ELSE as_push(Tail(edges), e,
                        q \cup {Entry(as_new_total(j, e.path),
                                      counter + Cardinality(q \ pq),
                                      catalog[j].to, Append(e.path, j))})

BestAStarStart ==
  /\ pc = "fc_done"
  /\ LET gr == build_graph(catalog, FilterDate(catalog, query.date))
         q0 == as_initial(gr[query.start], {}, 0)
     IN  /\ g' = gr
         /\ pq' = q0
         /\ counter' = Cardinality(q0)
         /\ pushed' = q0
  /\ visited' = {}
  /\ processed' = <<>>
  /\ pc' = "astar"
  /\ UNCHANGED <<catalog, query, results, ret, aret, directs, dret>>

BestAStarDiscard ==
  /\ pc = "astar" /\ pq # {}
  /\ LET e == HeapTop(pq)
     IN  /\ as_stale(e)
         /\ pq' = pq \ {e}
  /\ UNCHANGED <<catalog, query, pc, g, counter, visited, results, ret, aret,
                 directs, dret, pushed, processed>>

BestAStarReturnPath ==
  /\ pc = "astar" /\ pq # {}
  /\ LET e == HeapTop(pq)
     IN  /\ ~as_stale(e)
         /\ as_goal(e)
         /\ pq' = pq \ {e}
         /\ visited' = visited \cup {StateKey(e)}
         /\ aret' = Some(e.path)
         /\ processed' = Append(processed, e)
  /\ pc' = "done"
  /\ UNCHANGED <<catalog, query, g, counter, results, ret, directs, dret,
                 pushed>>

BestAStarLegCap ==
  /\ pc = "astar" /\ pq # {}
  /\ LET e == HeapTop(pq)
     IN  /\ ~as_stale(e)
         /\ ~as_goal(e)
         /\ as_leg_cap(e)
         /\ pq' = pq \ {e}
         /\ visited' = visited \cup {StateKey(e)}
         /\ processed' = Append(processed, e)
  /\ UNCHANGED <<catalog, query, pc, g, counter, results, ret, aret, directs,
                 dret, pushed>>

BestAStarExpand ==
  /\ pc = "astar" /\ pq # {}
  /\ LET e == HeapTop(pq)
         q1 == as_push(g[e.curr], e, pq)
     IN  /\ ~as_stale(e)
         /\ ~as_goal(e)
         /\ ~as_leg_cap(e)
         /\ pq' = q1 \ {e}
         /\ counter' = counter + Cardinality(q1 \ pq)
         /\ pushed' = pushed \cup (q1 \ pq)
         /\ visited' = visited \cup {StateKey(e)}
         /\ processed' = Append(processed, e)
  /\ UNCHANGED <<catalog, query, pc, g, results, ret, aret, directs, dret>>

BestAStarReturnNone ==
  /\ pc = "astar" /\ pq = {}
  /\ aret' = None
  /\ pc' = "done"
  /\ UNCHANGED <<catalog, query, g, pq, counter, visited, results, ret,
                 directs, dret, pushed, processed>>

-----------------------------------------------------------------------------
(* The connected searches on one query: find_connected, then best_a_star *)

Idle ==
  /\ g = [a \in Airports |-> <<>>]
  /\ pq = {}
  /\ counter = 0
  /\ visited = {}
  /\ results = <<>>
  /\ ret = <<>>
  /\ aret = None
  /\ directs = <<>>
  /\ dret = None
  /\ pushed = {}
  /\ processed = <<>>

Init ==
  /\ catalog \in Catalogs
  /\ query \in Queries
  /\ pc = "start"
  /\ Idle

Next ==
  \/ FindConnectedStart
  \/ FindConnectedDiscard
  \/ FindConnectedRecord
  \/ FindConnectedLegCap
  \/ FindConnectedExpand
  \/ FindConnectedReturn
  \/ BestAStarStart
  \/ BestAStarDiscard
  \/ BestAStarReturnPath
  \/ BestAStarLegCap
  \/ BestAStarExpand
  \/ BestAStarReturnNone

Spec == Init /\ [][Next]_vars

(* The searches are synchronous loops: a step that can be taken is taken. *)
(* The queries of the termination check: the default constraints, and a  *)
(* window that lets a connection leave before the previous segment has    *)
(* arrived, so that a path can go round a cycle.                          *)
FairQueries ==
  { q \in Queries :
      /\ q.date = 0
      /\ q.c.max_results = DefaultMaxResults
      /\ q.c.max_legs = DefaultMaxLegs
      /\ q.c.max_conn = DefaultMaxConn }

InitFair ==
  /\ catalog \in Catalogs
  /\ query \in FairQueries
  /\ pc = "start"
  /\ Idle

FairSpec == InitFair /\ [][Next]_vars /\ WF_vars(Next)

-----------------------------------------------------------------------------
(* find_direct and best_a_star, direct mode *)

Duration(f) == get_arr_time(f) - get_dep_time(f)

(* mutant of find_direct: the departure date is not compared *)
find_direct_any_date(cat, start, end, date) ==
  LET m == SelectSeq(Positions(cat),
                     LAMBDA i : cat[i].from = start /\ cat[i].to = end)
      keyed == [k \in 1..Len(m) |-> <<Duration(cat[m[k]]), m[k]>>]
      sorted == SortedByKey(keyed)
  IN  [k \in 1..Len(sorted) |-> sorted[k][2]]

(* lines 135-136: the matching positions, sorted by duration *)
find_direct(cat, start, end, date) ==
  LET m == SelectSeq(Positions(cat),
                     LAMBDA i : /\ cat[i].from = start
                                /\ cat[i].to = end
                                /\ DateOf(get_dep_time(cat[i])) = date)
      keyed == [k \in 1..Len(m) |-> <<Duration(cat[m[k]]), m[k]>>]
      sorted == SortedByKey(keyed)
  IN  [k \in 1..Len(sorted) |-> sorted[k][2]]

(* lines 170-171 *)
best_a_star_direct(cat, start, end, date) ==
  LET d == find_direct(cat, start, end, date)
  IN  IF d # <<>> THEN Some(d[1]) ELSE None

DirectTimetable ==
  { Flight("A", "B", d, d + u) : d \in {0, 100, 1500}, u \in {60, 90} }
  \cup { Flight("A", "C", 0, 60), Flight("C", "B", 0, 60) }

DirectCatalogs == [1..MaxSegs -> DirectTimetable]

DirectQueries == { Query("A", "B", d, DefaultConstraints) : d \in {0, 1} }

FindDirect ==
  /\ pc = "direct_start"
  /\ directs' = find_direct(catalog, query.start, query.end, query.date)
  /\ pc' = "direct_found"
  /\ UNCHANGED <<catalog, query, g, pq, counter, visited, results, ret, aret,
                 dret, pushed, processed>>

BestAStarDirect ==
  /\ pc = "direct_found"
  /\ dret' = best_a_star_direct(catalog, query.start, query.end, query.date)
  /\ pc' = "done"
  /\ UNCHANGED <<catalog, query, g, pq, counter, visited, results, ret, aret,
                 directs, pushed, processed>>

InitDirect ==
  /\ catalog \in DirectCatalogs
  /\ query \in DirectQueries
  /\ pc = "direct_start"
  /\ Idle

NextDirect == FindDirect \/ BestAStarDirect

SpecDirect == InitDirect /\ [][NextDirect]_vars

-----------------------------------------------------------------------------
(* Vocabulary of the properties *)

Last(p) == p[Len(p)]

PathCost(p) == get_arr_time(catalog[Last(p)]) - get_dep_time(catalog[p[1]])

Gaps(p) ==
  { get_dep_time(catalog[p[i + 1]]) - get_arr_time(catalog[p[i]]) :
      i \in 1..(Len(p) - 1) }

Chained(p) ==
  \A i \in 1..(Len(p) - 1) : catalog[p[i]].to = catalog[p[i + 1]].from

NoRepeat(p) == \A i, j \in 1..Len(p) : i # j => p[i] # p[j]

OnDate(p) ==
  \A i \in 1..Len(p) : DateOf(get_dep_time(catalog[p[i]])) = query.date

InWindow(p, mn, mx) == \A x \in Gaps(p) : mn <= x /\ x <= mx

(* the valid connecting paths of the query *)
ValidPaths ==
  { p \in UNION { [1..n -> 1..Len(catalog)] : n \in 2..query.c.max_legs } :
      /\ NoRepeat(p) /\ OnDate(p) /\ Chained(p)
      /\ catalog[p[1]].from = query.start
      /\ catalog[Last(p)].to = query.end
      /\ InWindow(p, query.c.min_conn, query.c.max_conn) }

Returned == pc \in {"fc_done", "astar", "done"}

RetPaths == { ret[i][2] : i \in 1..Len(ret) }

ResultPaths == { results[i][2] : i \in 1..Len(results) }

-----------------------------------------------------------------------------
(* Claims *)

MinOf(S) == CHOOSE x \in S : \A y \in S : x <= y

(* C1: find_connected returns the k = max_results valid connecting paths   *)
(* with the smallest total elapsed time, or all of them when fewer than k  *)
(* exist: the returned paths are distinct valid paths, there are           *)
(* min(k, number of valid paths) of them, and no valid path left out is    *)
(* shorter than a returned one.                                            *)
C1_KBestValidPaths ==
  Returned =>
    /\ Len(ret) = IF Cardinality(ValidPaths) < query.c.max_results
                  THEN Cardinality(ValidPaths) ELSE query.c.max_results
    /\ Cardinality(RetPaths) = Len(ret)
    /\ RetPaths \subseteq ValidPaths
    /\ \A p \in RetPaths : \A v \in ValidPaths \ RetPaths :
         PathCost(p) <= PathCost(v)

FirstConnections ==
  { c \in (1..Len(catalog)) \X (1..Len(catalog)) :
      /\ c[1] # c[2]
      /\ OnDate(c) /\ Chained(c)
      /\ catalog[c[1]].from = query.start }

C3_GapsInWindow ==
  /\ \A p \in ResultPaths \cup RetPaths :
       InWindow(p, query.c.min_conn, query.c.max_conn)
  /\ aret # None => InWindow(aret[1], AStarMinConn, AStarMaxConn)
  /\ (/\ Returned
      /\ \A c \in FirstConnections :
           ~InWindow(c, query.c.min_conn, query.c.max_conn)) => ret = <<>>
  /\ (/\ pc = "done"
      /\ \A c \in FirstConnections :
           ~InWindow(c, AStarMinConn, AStarMaxConn)) => aret = None

(* a returned path with a gap on the upper edge of the window, and a chain *)
(* from the origin to the destination rejected for its gap alone           *)
C3_Witness ==
  /\ pc = "done"
  /\ aret # None
  /\ \E p \in RetPaths : query.c.max_conn \in Gaps(p)
  /\ \E i, j \in 1..Len(catalog) :
       /\ OnDate(<<i, j>>) /\ Chained(<<i, j>>) /\ i # j
       /\ catalog[i].from = query.start /\ catalog[j].to = query.end
       /\ ~InWindow(<<i, j>>, query.c.min_conn, query.c.max_conn)

(* C4: every path returned by find_connected has more than one and at most *)
(* max_legs segments (so max_legs < 2 gives an empty result); the path     *)
(* returned by best_a_star has 2 or 3 segments.                            *)
C4_LegCount ==
  /\ \A p \in ResultPaths \cup RetPaths :
       Len(p) > 1 /\ Len(p) <= query.c.max_legs
  /\ query.c.max_legs < 2 => (results = <<>> /\ ret = <<>>)
  /\ aret # None => Len(aret[1]) \in {2, 3}

(* the destination is reachable only with 3 legs: find_connected with      *)
(* max_legs = 2 returned nothing, best_a_star returned the 3-leg path      *)
C4_Witness ==
  /\ pc = "done"
  /\ query.c.max_legs = 2
  /\ ret = <<>>
  /\ aret # None /\ Len(aret[1]) = 3

(* C5: every path returned by find_connected or best_a_star chains, starts  *)
(* at the origin, ends at the destination and holds no catalog segment     *)
(* twice; every path in the frontier chains, starts at the origin, holds   *)
(* no segment twice and ends at the entry's current location.              *)
WellFormed(p) ==
  /\ Len(p) >= 1
  /\ Chained(p)
  /\ NoRepeat(p)
  /\ catalog[p[1]].from = query.start

C5_WellFormedPaths ==
  /\ \A p \in ResultPaths \cup RetPaths :
       WellFormed(p) /\ catalog[Last(p)].to = query.end
  /\ aret # None =>
       (WellFormed(aret[1]) /\ catalog[Last(aret[1])].to = query.end)
  /\ \A e \in pq : WellFormed(e.path) /\ catalog[Last(e.path)].to = e.curr

(* a search that returned a path and whose expansion met, inside the       *)
(* connection window, a segment already in the path                        *)
C5_Witness ==
  /\ pc \in {"fc", "fc_done"}
  /\ results # <<>>
  /\ \E k \in 1..Len(processed) : \E j \in 1..Len(catalog) :
       /\ Len(processed[k].path) < query.c.max_legs
       /\ catalog[j].from = processed[k].curr
       /\ SegInPath(j, processed[k].path)
       /\ ~fc_window_reject(LayoverMin(j, processed[k].path))

(* C6: the list returned by find_connected is in non-decreasing order of   *)
(* total elapsed time, and the cost stored with each result is the time    *)
(* from its first segment's departure to its last segment's arrival.       *)
C6_SortedByElapsed ==
  Returned =>
    /\ \A i \in 1..(Len(ret) - 1) : ret[i][1] <= ret[i + 1][1]
    /\ \A i \in 1..Len(ret) : ret[i][1] = PathCost(ret[i][2])

(* the results were collected out of order and the return sorted them *)
C6_Witness ==
  /\ Returned
  /\ Len(ret) >= 2
  /\ ret # results

(* C8 (as stated): two valid two-leg paths of equal elapsed time through   *)
(* different intermediate locations are both returned when max_results is  *)
(* at least 2, each once, the one whose segments come first in the catalog *)
(* listed first.                                                           *)
Position(p) == CHOOSE i \in 1..Len(ret) : ret[i][2] = p

TwoLegValid ==
  { p \in (1..Len(catalog)) \X (1..Len(catalog)) :
      /\ query.c.max_legs >= 2
      /\ p[1] # p[2]
      /\ OnDate(p) /\ Chained(p)
      /\ catalog[p[1]].from = query.start
      /\ catalog[p[2]].to = query.end
      /\ InWindow(p, query.c.min_conn, query.c.max_conn) }

TwoLegTies ==
  { pr \in TwoLegValid \X TwoLegValid :
      /\ PathCost(pr[1]) = PathCost(pr[2])
      /\ catalog[pr[1][1]].to # catalog[pr[2][1]].to }

FirstLegBefore(p, r) ==
  \/ Duration(catalog[p[1]]) < Duration(catalog[r[1]])
  \/ /\ Duration(catalog[p[1]]) = Duration(catalog[r[1]])
     /\ p[1] < r[1]

Searching == pc \in {"fc", "fc_done", "astar", "done"}

ProcessedSet == { processed[k] : k \in 1..Len(processed) }

C10_VisitedKeyDiscipline ==
  Searching =>
    /\ \A k, l \in 1..Len(processed) :
         k # l => StateKey(processed[k]) # StateKey(processed[l])
    /\ visited = { StateKey(e) : e \in ProcessedSet }
    /\ \A e \in ProcessedSet : \A o \in pushed :
         (o # e /\ StateKey(o) = StateKey(e)) =>
           (e.cost < o.cost \/ (e.cost = o.cost /\ e.seq < o.seq))
    /\ pc \in {"fc", "fc_done"} =>
         \A i \in 1..Len(results) :
           \E e \in ProcessedSet : e.path = results[i][2]
    /\ pc = "done" /\ aret # None =>
         \E e \in ProcessedSet : e.path = aret[1]
    /\ \A o \in pushed : Len(o.path) > 1 =>
         \E e \in ProcessedSet : e.path = SubSeq(o.path, 1, Len(o.path) - 1)

(* a stale duplicate was popped and discarded *)
C10_Witness ==
  /\ pc = "fc"
  /\ results # <<>>
  /\ \E o \in pushed \ (pq \cup ProcessedSet) : StateKey(o) \in visited

(* C9: find_connected and best_a_star connected mode return for every      *)
(* catalog and query; every entry pushed by an expansion has one more leg  *)
(* than the popped entry, no entry with max_legs (3 in best_a_star) or     *)
(* more legs is expanded, and a search ends only when the frontier is      *)
(* empty or, in find_connected, max_results results are collected (in      *)
(* best_a_star, a path is returned).                                       *)
ExpansionStep ==
  (pushed' # pushed /\ pc' = pc) =>
    LET e == processed'[Len(processed')]
        cap == IF pc = "fc" THEN query.c.max_legs ELSE AStarMaxLegs
    IN  /\ Len(e.path) < cap
        /\ \A n \in pushed' \ pushed : Len(n.path) = Len(e.path) + 1

ExitStep ==
  /\ (pc = "fc" /\ pc' = "fc_done") =>
       (pq = {} \/ Len(results) >= query.c.max_results)
  /\ (pc = "astar" /\ pc' = "done") => (pq = {} \/ aret' # None)

C9_Termination ==
  /\ <>(pc = "done")
  /\ [][ExpansionStep /\ ExitStep]_vars

(* both searches returned on a catalog with the cycle A -> B -> A, after   *)
(* following it                                                            *)
C9_Witness ==
  /\ pc = "done"
  /\ \E i, j \in 1..Len(catalog) :
       /\ catalog[i].from = catalog[j].to
       /\ catalog[i].to = catalog[j].from
       /\ \E e \in pushed : Len(e.path) = 3 /\ e.path[1] = i /\ e.path[2] = j

(* C7: find_direct returns exactly the segments whose origin, destination  *)
(* and departure date match the query, in ascending order of duration,     *)
(* equal durations in catalog order; best_a_star in direct mode returns a  *)
(* matching segment of minimal duration, and None exactly when no segment  *)
(* matches.                                                                *)
Matching ==
  { i \in 1..Len(catalog) :
      /\ catalog[i].from = query.start
      /\ catalog[i].to = query.end
      /\ DateOf(get_dep_time(catalog[i])) = query.date }

C7_DirectMode ==
  /\ pc \in {"direct_found", "done"} =>
       /\ { directs[k] : k \in 1..Len(directs) } = Matching
       /\ Len(directs) = Cardinality(Matching)
       /\ \A k, l \in 1..Len(directs) : k < l =>
            \/ Duration(catalog[directs[k]]) < Duration(catalog[directs[l]])
            \/ /\ Duration(catalog[directs[k]]) = Duration(catalog[directs[l]])
               /\ directs[k] < directs[l]
  /\ pc = "done" =>
       /\ (dret = None) <=> (Matching = {})
       /\ dret # None =>
            /\ dret[1] \in Matching
            /\ \A i \in Matching :
                 Duration(catalog[dret[1]]) <= Duration(catalog[i])

(* three matches, two of equal duration at different times, one shorter    *)
(* match later in the catalog, and one segment failing each criterion      *)
C7_Witness ==
  /\ pc = "done"
  /\ dret # None
  /\ dret[1] # 1
  /\ \E k \in 1..(Len(directs) - 1) :
       /\ Duration(catalog[directs[k]]) = Duration(catalog[directs[k + 1]])
       /\ catalog[directs[k]] # catalog[directs[k + 1]]
  /\ \E i \in 1..Len(catalog) :
       /\ catalog[i].from = query.start /\ catalog[i].to = query.end
       /\ i \notin Matching

====
